---- MODULE Spec2Model ----
(***************************************************************************)
(* Snake game (snake_game/src): the Cube and Snake models, snack           *)
(* placement and the loop of main(), as a state machine.                   *)
(*                                                                         *)
(* A position is a pair <<x, y>>.  A Cube is a record with its position    *)
(* and its direction (colour plays no part in the logic).  The pending     *)
(* turns of the snake are a function from positions to directions, as the  *)
(* dict Snake.turns.  The loop of main() is cut at its statements: the     *)
(* program counter pc names the statement the loop executes next.          *)
(*                                                                         *)
(* Two variables are not fields of the program: ticks counts the finished  *)
(* iterations of the loop, and prev is a history variable, the body as it  *)
(* was before the snake.move() of the current iteration (<<>> between      *)
(* iterations).  No action reads prev.                                     *)
(*                                                                         *)
(* alerts is the sequence of the scores that the collision loop of the     *)
(* current iteration has passed to message_box (<<>> between iterations),  *)
(* and frame holds the arguments and locals of a call of random_snack that *)
(* is followed sample by sample (NoFrame when there is none).              *)
(***************************************************************************)
EXTENDS Integers, Sequences, FiniteSets

VARIABLES body, turns, dirnx, dirny, snack, running, keys, pc, ticks, prev,
          alerts, frame

vars == <<body, turns, dirnx, dirny, snack, running, keys, pc, ticks, prev,
          alerts, frame>>

(***************************************************************************)
(* Program constants.                                                      *)
(***************************************************************************)
\* Cube.rows (models.py) and rows of main() (game.py): the grid is rows x rows
rows == 20

\* the start cell of main(): Snake((255, 0, 0), (10, 10)), snake.reset((10, 10))
StartPos == <<10, 10>>

(***************************************************************************)
(* Bounds of the model.                                                    *)
(***************************************************************************)
\* the loop of main() is followed for at most MaxTicks iterations
MaxTicks == 13

\* under fairness the loop of main() is followed for LiveTicks iterations
LiveTicks == 4

\* the bodies built for the second half of a tick have at most MaxCubes cubes
MaxCubes == 3

\* random_snack is followed sample by sample on grids of up to MaxN x MaxN
MaxN == 2

\* the cells the random source of random_snack is let to produce
SampleCells == {<<11, 10>>, <<12, 10>>, <<19, 11>>, <<0, 10>>, <<10, 10>>}

\* the key states polled by the loop: every combination of held keys
Keys == {"K_LEFT", "K_RIGHT", "K_UP", "K_DOWN"}

KeyStates == [Keys -> BOOLEAN]

\* no key is held
NoKeys == [k \in Keys |-> FALSE]

(***************************************************************************)
(* Cube                                                                    *)
(***************************************************************************)
\* Cube.__init__(start, dirnx=1, dirny=0)
Cube(start, dx, dy) == [pos |-> start, dirnx |-> dx, dirny |-> dy]

\* Cube(start) with the default direction of the constructor
NewCube(start) == Cube(start, 1, 0)

\* Cube.move(dirnx, dirny)
Cube_move(c, dx, dy) == Cube(<<c.pos[1] + dx, c.pos[2] + dy>>, dx, dy)

(***************************************************************************)
(* Snake                                                                   *)
(***************************************************************************)
\* the empty dict
EmptyTurns == [p \in {} |-> <<0, 0>>]

\* turns[p] = d
TurnsPut(t, p, d) == [q \in (DOMAIN t) \cup {p} |-> IF q = p THEN d ELSE t[q]]

\* turns.pop(p)
TurnsPop(t, p) == [q \in (DOMAIN t) \ {p} |-> t[q]]

\* the body of a branch of handle_input assigning only the component of
\* the direction that the key sets to a non-zero value
Accept_one_component(t, head, dx, dy) ==
    LET nx == IF dx = 0 THEN dirnx ELSE dx
        ny == IF dy = 0 THEN dirny ELSE dy
    IN  [dirnx |-> nx, dirny |-> ny, turns |-> TurnsPut(t, head.pos, <<nx, ny>>),
         raised |-> FALSE]

\* the body of a branch of handle_input writing its turn into a new dict
Accept_fresh_map(t, head, dx, dy) ==
    [dirnx |-> dx, dirny |-> dy, turns |-> TurnsPut(EmptyTurns, head.pos, <<dx, dy>>),
     raised |-> FALSE]

\* the body of one branch of handle_input: set the direction, stamp the turn
Accept(t, head, dx, dy) ==
    [dirnx |-> dx, dirny |-> dy, turns |-> TurnsPut(t, head.pos, <<dx, dy>>),
     raised |-> FALSE]

\* handle_input without the guard of its first branch: the left key is
\* accepted whatever the direction
handle_input_unguarded(ks, t, dx, dy, head) ==
    LET same == [dirnx |-> dx, dirny |-> dy, turns |-> t, raised |-> FALSE]
    IN  IF "K_LEFT" \notin DOMAIN ks THEN same
        ELSE IF ks["K_LEFT"] THEN Accept(t, head, -1, 0)
        ELSE IF "K_RIGHT" \notin DOMAIN ks THEN same
        ELSE IF ks["K_RIGHT"] /\ dx # -1 THEN Accept(t, head, 1, 0)
        ELSE IF "K_UP" \notin DOMAIN ks THEN same
        ELSE IF ks["K_UP"] /\ dy # 1 THEN Accept(t, head, 0, -1)
        ELSE IF "K_DOWN" \notin DOMAIN ks THEN same
        ELSE IF ks["K_DOWN"] /\ dy # -1 THEN Accept(t, head, 0, 1)
        ELSE same

\* handle_input with the up and down keys tested before the left and right
handle_input_vertical_first(ks, t, dx, dy, head) ==
    LET same == [dirnx |-> dx, dirny |-> dy, turns |-> t, raised |-> FALSE]
    IN  IF "K_UP" \notin DOMAIN ks THEN same
        ELSE IF ks["K_UP"] /\ dy # 1 THEN Accept(t, head, 0, -1)
        ELSE IF "K_DOWN" \notin DOMAIN ks THEN same
        ELSE IF ks["K_DOWN"] /\ dy # -1 THEN Accept(t, head, 0, 1)
        ELSE IF "K_LEFT" \notin DOMAIN ks THEN same
        ELSE IF ks["K_LEFT"] /\ dx # 1 THEN Accept(t, head, -1, 0)
        ELSE IF "K_RIGHT" \notin DOMAIN ks THEN same
        ELSE IF ks["K_RIGHT"] /\ dx # -1 THEN Accept(t, head, 1, 0)
        ELSE same

\* handle_input without its except clause: the error of a failed lookup
\* leaves the call
handle_input_uncaught(ks, t, dx, dy, head) ==
    LET same == [dirnx |-> dx, dirny |-> dy, turns |-> t, raised |-> FALSE]
        fail == [dirnx |-> dx, dirny |-> dy, turns |-> t, raised |-> TRUE]
    IN  IF "K_LEFT" \notin DOMAIN ks THEN fail
        ELSE IF ks["K_LEFT"] /\ dx # 1 THEN Accept(t, head, -1, 0)
        ELSE IF "K_RIGHT" \notin DOMAIN ks THEN fail
        ELSE IF ks["K_RIGHT"] /\ dx # -1 THEN Accept(t, head, 1, 0)
        ELSE IF "K_UP" \notin DOMAIN ks THEN fail
        ELSE IF ks["K_UP"] /\ dy # 1 THEN Accept(t, head, 0, -1)
        ELSE IF "K_DOWN" \notin DOMAIN ks THEN fail
        ELSE IF ks["K_DOWN"] /\ dy # -1 THEN Accept(t, head, 0, 1)
        ELSE same

\* Snake.handle_input(keys): the key state ks is a function from a set of keys to
\* BOOLEAN; a lookup of a key outside its domain raises KeyError (TypeError
\* for a key state that cannot be indexed, which has no key at all), which
\* the handler catches.  The result is the snake's direction and turns, and
\* whether an error leaves the call (raised).
handle_input(ks, t, dx, dy, head) ==
    LET same == [dirnx |-> dx, dirny |-> dy, turns |-> t, raised |-> FALSE]
    IN  IF "K_LEFT" \notin DOMAIN ks THEN same
        ELSE IF ks["K_LEFT"] /\ dx # 1 THEN Accept(t, head, -1, 0)
        ELSE IF "K_RIGHT" \notin DOMAIN ks THEN same
        ELSE IF ks["K_RIGHT"] /\ dx # -1 THEN Accept(t, head, 1, 0)
        ELSE IF "K_UP" \notin DOMAIN ks THEN same
        ELSE IF ks["K_UP"] /\ dy # 1 THEN Accept(t, head, 0, -1)
        ELSE IF "K_DOWN" \notin DOMAIN ks THEN same
        ELSE IF ks["K_DOWN"] /\ dy # -1 THEN Accept(t, head, 0, 1)
        ELSE same

\* the iteration of Snake.move that tests the edges before the pending turn
MoveCube_wrap_first(c, t) ==
    IF c.dirnx = -1 /\ c.pos[1] <= 0 THEN [c EXCEPT !.pos = <<rows - 1, c.pos[2]>>]
    ELSE IF c.dirnx = 1 /\ c.pos[1] >= rows - 1 THEN [c EXCEPT !.pos = <<0, c.pos[2]>>]
    ELSE IF c.dirny = 1 /\ c.pos[2] >= rows - 1 THEN [c EXCEPT !.pos = <<c.pos[1], 0>>]
    ELSE IF c.dirny = -1 /\ c.pos[2] <= 0 THEN [c EXCEPT !.pos = <<c.pos[1], rows - 1>>]
    ELSE IF c.pos \in DOMAIN t THEN Cube_move(c, t[c.pos][1], t[c.pos][2])
    ELSE Cube_move(c, c.dirnx, c.dirny)

\* one iteration of the loop of Snake.move for the cube c: the cube after it
MoveCube(c, t) ==
    IF c.pos \in DOMAIN t THEN Cube_move(c, t[c.pos][1], t[c.pos][2])
    ELSE IF c.dirnx = -1 /\ c.pos[1] <= 0 THEN [c EXCEPT !.pos = <<rows - 1, c.pos[2]>>]
    ELSE IF c.dirnx = 1 /\ c.pos[1] >= rows - 1 THEN [c EXCEPT !.pos = <<0, c.pos[2]>>]
    ELSE IF c.dirny = 1 /\ c.pos[2] >= rows - 1 THEN [c EXCEPT !.pos = <<c.pos[1], 0>>]
    ELSE IF c.dirny = -1 /\ c.pos[2] <= 0 THEN [c EXCEPT !.pos = <<c.pos[1], rows - 1>>]
    ELSE Cube_move(c, c.dirnx, c.dirny)

\* the pop of Snake.move made by the head instead of the last cube
MovePop_head(b, t, i) ==
    IF b[i].pos \in DOMAIN t /\ i = 1 THEN TurnsPop(t, b[i].pos) ELSE t

\* the turns after the iteration for the cube at index i (the last cube pops)
MovePop(b, t, i) ==
    IF b[i].pos \in DOMAIN t /\ i = Len(b) THEN TurnsPop(t, b[i].pos) ELSE t

\* the loop of Snake.move from index i on, head to tail
RECURSIVE MoveFrom(_, _, _)
MoveFrom(b, t, i) ==
    IF i > Len(b) THEN [body |-> b, turns |-> t]
    ELSE MoveFrom([b EXCEPT ![i] = MoveCube(b[i], t)], MovePop(b, t, i), i + 1)

\* Snake.move()
Snake_move(b, t) == MoveFrom(b, t, 1)

\* reset that takes the direction of the new head cube for the snake's
reset_head_direction(p) ==
    [body |-> <<NewCube(p)>>, turns |-> EmptyTurns, dirnx |-> 1, dirny |-> 0]

\* Snake.reset(pos): the fields of the snake after the call
reset(p) == [body |-> <<NewCube(p)>>, turns |-> EmptyTurns, dirnx |-> 0, dirny |-> 1]

\* the new cube put ahead of a tail that moves right, not behind it
BehindTail_ahead(tail) ==
    IF tail.dirnx = 1 /\ tail.dirny = 0 THEN <<tail.pos[1] + 1, tail.pos[2]>>
    ELSE IF tail.dirnx = -1 /\ tail.dirny = 0 THEN <<tail.pos[1] + 1, tail.pos[2]>>
    ELSE IF tail.dirnx = 0 /\ tail.dirny = 1 THEN <<tail.pos[1], tail.pos[2] - 1>>
    ELSE <<tail.pos[1], tail.pos[2] + 1>>

\* the position add_cube gives the new cube, behind the tail
BehindTail(tail) ==
    IF tail.dirnx = 1 /\ tail.dirny = 0 THEN <<tail.pos[1] - 1, tail.pos[2]>>
    ELSE IF tail.dirnx = -1 /\ tail.dirny = 0 THEN <<tail.pos[1] + 1, tail.pos[2]>>
    ELSE IF tail.dirnx = 0 /\ tail.dirny = 1 THEN <<tail.pos[1], tail.pos[2] - 1>>
    ELSE <<tail.pos[1], tail.pos[2] + 1>>

\* one of the four cases of add_cube applies
IsUnitDir(dx, dy) ==
    \/ dx = 1 /\ dy = 0
    \/ dx = -1 /\ dy = 0
    \/ dx = 0 /\ dy = 1
    \/ dx = 0 /\ dy = -1

\* add_cube that appends two cubes behind the tail
add_cube_pair(b) ==
    LET tail == b[Len(b)]
    IN  IF IsUnitDir(tail.dirnx, tail.dirny)
        THEN b \o <<Cube(BehindTail(tail), tail.dirnx, tail.dirny),
                     Cube(BehindTail(tail), tail.dirnx, tail.dirny)>>
        ELSE b

\* add_cube that leaves a free cell between the tail and the new cube
add_cube_gap(b) ==
    LET tail == b[Len(b)]
    IN  IF IsUnitDir(tail.dirnx, tail.dirny)
        THEN Append(b, Cube(<<tail.pos[1] - 2 * tail.dirnx, tail.pos[2] - 2 * tail.dirny>>,
                            tail.dirnx, tail.dirny))
        ELSE b

\* Snake.add_cube()
add_cube(b) ==
    LET tail == b[Len(b)]
    IN  IF IsUnitDir(tail.dirnx, tail.dirny)
        THEN Append(b, Cube(BehindTail(tail), tail.dirnx, tail.dirny))
        ELSE b

(***************************************************************************)
(* utils                                                                   *)
(***************************************************************************)
\* random_snack that does not test the sample against the last cube
random_snack_skips_tail(n, b) ==
    {p \in (0 .. n - 1) \X (0 .. n - 1) : \A i \in 1 .. Len(b) - 1 : b[i].pos # p}

\* the cells random_snack(rows, snake) can return: the samples (x, y) of
\* randbelow(n) that no cube of the body occupies
random_snack(n, b) ==
    {p \in (0 .. n - 1) \X (0 .. n - 1) : \A i \in 1 .. Len(b) : b[i].pos # p}

(***************************************************************************)
(* main                                                                    *)
(***************************************************************************)
\* the snack test made on the tail cube, not on the head
SnackEaten_tail(b, s) == b[Len(b)].pos = s

\* the snack test of main(): snake.body[0].pos == snack.pos
SnackEaten(b, s) == b[1].pos = s

\* the self-collision test of main(): some cube's position occurs after it
Collision(b) ==
    \E x \in 1 .. Len(b) : \E j \in x + 1 .. Len(b) : b[x].pos = b[j].pos

\* the collision loop that tests the head only
collision_loop_head_only(b, x) ==
    IF x = 1 /\ \E j \in 2 .. Len(b) : b[1].pos = b[j].pos THEN <<Len(b)>> ELSE <<>>

\* the collision loop that takes the score after the reset
RECURSIVE collision_loop_score_after_reset(_, _)
collision_loop_score_after_reset(b, x) ==
    IF x > Len(b) THEN <<>>
    ELSE IF \E j \in x + 1 .. Len(b) : b[x].pos = b[j].pos
         THEN <<Len(reset(StartPos).body)>>
         ELSE collision_loop_score_after_reset(b, x + 1)

\* the collision loop over the positions it had on entry, without the break
RECURSIVE collision_loop_no_break(_, _)
collision_loop_no_break(b, x) ==
    IF x > Len(b) THEN <<>>
    ELSE IF \E j \in x + 1 .. Len(b) : b[x].pos = b[j].pos
         THEN <<Len(b)>> \o collision_loop_no_break(b, x + 1)
         ELSE collision_loop_no_break(b, x + 1)

\* the collision loop of main() from index x on, for the body b: the scores
\* it passes to message_box.  At the first cube whose position occurs after
\* it the loop takes the score, calls message_box, resets the snake and
\* breaks.
RECURSIVE collision_loop(_, _)
collision_loop(b, x) ==
    IF x > Len(b) THEN <<>>
    ELSE IF \E j \in x + 1 .. Len(b) : b[x].pos = b[j].pos
         THEN <<Len(b)>>
         ELSE collision_loop(b, x + 1)

\* no call of random_snack is followed sample by sample
NoFrame == <<>>

\* the loop of main() with the test `while True`
while_running_always(r) == "events"

\* the test of `while running:` after an iteration: where the loop goes on
while_running(r) == IF r THEN "events" ELSE "stopped"

Init ==
    /\ body = <<NewCube(StartPos)>>
    /\ turns = EmptyTurns
    /\ dirnx = 0
    /\ dirny = 1
    /\ snack \in random_snack(rows, body) \cap SampleCells
    /\ running = TRUE
    /\ keys = NoKeys
    /\ pc = "events"
    /\ ticks = 0
    /\ prev = <<>>
    /\ alerts = <<>>
    /\ frame = NoFrame

\* for event in pygame.event.get(): if event.type == pygame.QUIT: running = False
Events ==
    /\ pc = "events"
    /\ ticks < MaxTicks
    /\ \E quit \in BOOLEAN : running' = (IF quit THEN FALSE ELSE running)
    /\ pc' = "input"
    /\ UNCHANGED <<body, turns, dirnx, dirny, snack, keys, ticks, prev, alerts, frame>>

\* keys = pygame.key.get_pressed(); snake.handle_input(keys)
HandleInput ==
    /\ pc = "input"
    /\ keys' \in KeyStates
    /\ LET r == handle_input(keys', turns, dirnx, dirny, body[1])
       IN  /\ dirnx' = r.dirnx
           /\ dirny' = r.dirny
           /\ turns' = r.turns
    /\ pc' = "move"
    /\ UNCHANGED <<body, snack, running, ticks, prev, alerts, frame>>

\* snake.move().  The key state is not read again before the next poll
\* overwrites it: the model drops it here.  prev records the body before.
Move ==
    /\ pc = "move"
    /\ LET r == Snake_move(body, turns)
       IN  /\ body' = r.body
           /\ turns' = r.turns
    /\ keys' = NoKeys
    /\ prev' = body
    /\ pc' = "eat"
    /\ UNCHANGED <<dirnx, dirny, snack, running, ticks, alerts, frame>>

\* if snake.body[0].pos == snack.pos: snake.add_cube(); snack = Cube(random_snack(...))
Eat ==
    /\ pc = "eat"
    /\ IF SnackEaten(body, snack)
       THEN /\ body' = add_cube(body)
            /\ snack' \in random_snack(rows, body') \cap SampleCells
       ELSE UNCHANGED <<body, snack>>
    /\ pc' = "collide"
    /\ UNCHANGED <<turns, dirnx, dirny, running, keys, ticks, prev, alerts, frame>>

\* the self-collision loop up to the call of message_box, which shows the
\* score and blocks
Collide ==
    /\ pc = "collide"
    /\ alerts' = collision_loop(body, 1)
    /\ pc' = IF alerts' # <<>> THEN "alert" ELSE "redraw"
    /\ UNCHANGED <<body, turns, dirnx, dirny, snack, running, keys, ticks, prev, frame>>

\* message_box returns; snake.reset((10, 10)); break
Alert ==
    /\ pc = "alert"
    /\ LET r == reset(StartPos)
       IN  /\ body' = r.body
           /\ turns' = r.turns
           /\ dirnx' = r.dirnx
           /\ dirny' = r.dirny
    /\ pc' = "redraw"
    /\ UNCHANGED <<snack, running, keys, ticks, prev, alerts, frame>>

\* redraw_window(...); then the test of the while loop
Redraw ==
    /\ pc = "redraw"
    /\ pc' = while_running(running)
    /\ ticks' = ticks + 1
    /\ prev' = <<>>
    /\ alerts' = <<>>
    /\ UNCHANGED <<body, turns, dirnx, dirny, snack, running, keys, frame>>

Next ==
    \/ Events
    \/ HandleInput
    \/ Move
    \/ Eat
    \/ Collide
    \/ Alert
    \/ Redraw

Spec == Init /\ [][Next]_vars

\* the quit poll of one of the first LiveTicks iterations
EventsSoon ==
    /\ ticks < LiveTicks
    /\ Events

SoonNext ==
    \/ EventsSoon
    \/ HandleInput
    \/ Move
    \/ Eat
    \/ Collide
    \/ Alert
    \/ Redraw

\* main() is one sequential process: the statement the loop stands at is
\* executed, and the calls it makes return (the alert is dismissed).  The
\* loop is followed for LiveTicks iterations.
FairSpec == Init /\ [][SoonNext]_vars /\ WF_vars(SoonNext)

(***************************************************************************)
(* The second half of one tick (snack test, collision loop, redraw) for    *)
(* bodies built cube by cube, as the tests of the collision handling build *)
(* them by assigning positions.                                            *)
(***************************************************************************)
\* the cells the cubes of a built body are put on
TickCells == {<<10, 10>>, <<11, 10>>, <<12, 10>>}

\* the cubes of a built body: on one of the cells, moving right or down
TickCubes == {Cube(p, d[1], d[2]) : p \in TickCells, d \in {<<1, 0>>, <<0, 1>>}}

\* the built bodies
TickBodies == UNION {[1 .. n -> TickCubes] : n \in 1 .. MaxCubes}

\* the loop stands before its snack test with a built body; the snake has
\* the direction of its head, and prev is the body the tick is entered with
TickInit ==
    /\ body \in TickBodies
    /\ turns = EmptyTurns
    /\ dirnx = body[1].dirnx
    /\ dirny = body[1].dirny
    /\ snack \in TickCells
    /\ running \in BOOLEAN
    /\ keys = NoKeys
    /\ pc = "eat"
    /\ ticks = 0
    /\ prev = body
    /\ alerts = <<>>
    /\ frame = NoFrame

TickNext ==
    \/ Eat
    \/ Collide
    \/ Alert
    \/ Redraw

SpecTick == TickInit /\ [][TickNext]_vars

(***************************************************************************)
(* One call of handle_input for a built snake and any key state, the key   *)
(* states whose lookups fail included, as the tests of the input handling  *)
(* call it.                                                                *)
(***************************************************************************)
\* the four directions
UnitDirs == {<<1, 0>>, <<-1, 0>>, <<0, 1>>, <<0, -1>>}

\* the key states with any set of keys present
AnyKeyStates == UNION {[D -> BOOLEAN] : D \in SUBSET Keys}

\* a built snake with any direction, without or with a pending turn
KeysInit ==
    /\ body \in TickBodies
    /\ turns \in {EmptyTurns, TurnsPut(EmptyTurns, <<11, 10>>, <<0, 1>>)}
    /\ \E d \in UnitDirs : dirnx = d[1] /\ dirny = d[2]
    /\ snack = <<0, 10>>
    /\ running = TRUE
    /\ keys = NoKeys
    /\ pc = "input"
    /\ ticks = 0
    /\ prev = <<>>
    /\ alerts = <<>>
    /\ frame = NoFrame

\* snake.handle_input(keys) for any key state; an error that leaves the call
\* ends the loop
HandleInputAny ==
    /\ pc = "input"
    /\ keys' \in AnyKeyStates
    /\ LET r == handle_input(keys', turns, dirnx, dirny, body[1])
       IN  /\ dirnx' = r.dirnx
           /\ dirny' = r.dirny
           /\ turns' = r.turns
           /\ pc' = IF r.raised THEN "raised" ELSE "move"
    /\ UNCHANGED <<body, snack, running, ticks, prev, alerts, frame>>

KeysNext == HandleInputAny

SpecKeys == KeysInit /\ [][KeysNext]_vars

(***************************************************************************)
(* The game loop continued from the state that main() is in after thirteen *)
(* iterations with the keys right, seven times none, right, down, left,    *)
(* down and the snacks (11,10), (12,10), (19,11), (0,10): the last cube    *)
(* has wrapped away from the three cubes ahead of it.                      *)
(***************************************************************************)
\* the iterations of the loop made from that state on
TornTicks == 4

\* snake.body after the thirteenth iteration
TornBody ==
    <<Cube(<<19, 12>>, 0, 1), Cube(<<19, 11>>, -1, 0),
      Cube(<<20, 11>>, 0, 1), Cube(<<0, 10>>, 1, 0)>>

\* snake.turns after the thirteenth iteration
TornTurns ==
    TurnsPut(TurnsPut(TurnsPut(EmptyTurns, <<20, 10>>, <<0, 1>>),
                      <<20, 11>>, <<-1, 0>>),
             <<19, 11>>, <<0, 1>>)

\* the state of main() at the test of its while loop after the thirteenth
\* iteration
TornState ==
    /\ body = TornBody
    /\ turns = TornTurns
    /\ dirnx = 0
    /\ dirny = 1
    /\ snack = <<0, 10>>
    /\ running = TRUE
    /\ keys = NoKeys
    /\ pc = "events"
    /\ prev = <<>>
    /\ alerts = <<>>
    /\ frame = NoFrame

TornInit ==
    /\ TornState
    /\ ticks = 0

\* the poll of the events in the iterations made from that state on
EventsTorn ==
    /\ ticks < TornTicks
    /\ Events

TornNext ==
    \/ EventsTorn
    \/ HandleInput
    \/ Move
    \/ Eat
    \/ Collide
    \/ Alert
    \/ Redraw

SpecTorn == TornInit /\ [][TornNext]_vars

(***************************************************************************)
(* random_snack(rows, snake), sample by sample: the call that main() makes *)
(* after an eat, for grids of 1 x 1 to MaxN x MaxN cells.  pc is "rs_loop" *)
(* at the head of the while loop and "rs_return" once the call has         *)
(* returned (x, y), which main() makes the snack.                          *)
(***************************************************************************)
\* the cells of the n x n grid
Grid(n) == (0 .. n - 1) \X (0 .. n - 1)

\* the filter of random_snack that compares the column of the sample only
Overlaps_x_only(b, p) ==
    Len(SelectSeq(b, LAMBDA cube : cube.pos[1] = p[1])) > 0

\* the filter of random_snack applied to the head only
Overlaps_head_only(b, p) ==
    Len(SelectSeq(SubSeq(b, 1, 1), LAMBDA cube : cube.pos = p)) > 0

\* the filter of random_snack applied to all cubes but the last
Overlaps_skips_tail(b, p) ==
    Len(SelectSeq(SubSeq(b, 1, Len(b) - 1), LAMBDA cube : cube.pos = p)) > 0

\* len(list(filter(lambda cube: cube.pos == (x, y), positions))) > 0
Overlaps(b, p) ==
    Len(SelectSeq(b, LAMBDA cube : cube.pos = p)) > 0

\* the frame of random_snack(n, snake) with the samples x and y
Frame(n, x, y) == [rows |-> n, x |-> x, y |-> y]

\* a body with one cube on each cell of the set S
RECURSIVE CubesOn(_)
CubesOn(S) ==
    IF S = {} THEN <<>>
    ELSE LET p == CHOOSE q \in S : TRUE
         IN  <<NewCube(p)>> \o CubesOn(S \ {p})

\* the snakes random_snack is called with on the n x n grid: the head on a
\* cell of the grid (it has just eaten there), the other cubes on any cells
\* of the grid and possibly on the cell (n, 0) outside of it
SnackBodies(n) ==
    UNION {{<<NewCube(h)>> \o CubesOn(T) :
               T \in SUBSET ((Grid(n) \cup {<<n, 0>>}) \ {h})} : h \in Grid(n)}

\* main() has found the head on the snack and calls random_snack
SnackInit ==
    /\ \E n \in 1 .. MaxN :
           /\ frame = Frame(n, -1, -1)
           /\ body \in SnackBodies(n)
    /\ snack = body[1].pos
    /\ turns = EmptyTurns
    /\ dirnx = 0
    /\ dirny = 1
    /\ running = TRUE
    /\ keys = NoKeys
    /\ pc = "rs_loop"
    /\ ticks = 0
    /\ prev = <<>>
    /\ alerts = <<>>

\* x = randbelow(rows); y = randbelow(rows); the sample is on a cube: continue
Continue ==
    /\ pc = "rs_loop"
    /\ \E x \in 0 .. frame.rows - 1 : \E y \in 0 .. frame.rows - 1 :
           /\ Overlaps(body, <<x, y>>)
           /\ frame' = Frame(frame.rows, x, y)
    /\ UNCHANGED <<body, turns, dirnx, dirny, snack, running, keys, pc, ticks, prev, alerts>>

\* x = randbelow(rows); y = randbelow(rows); the sample is on no cube: break,
\* return x, y
Break ==
    /\ pc = "rs_loop"
    /\ \E x \in 0 .. frame.rows - 1 : \E y \in 0 .. frame.rows - 1 :
           /\ ~Overlaps(body, <<x, y>>)
           /\ frame' = Frame(frame.rows, x, y)
           /\ snack' = <<x, y>>
    /\ pc' = "rs_return"
    /\ UNCHANGED <<body, turns, dirnx, dirny, running, keys, ticks, prev, alerts>>

SnackNext ==
    \/ Continue
    \/ Break

SpecSnack == SnackInit /\ [][SnackNext]_vars

\* the random source does not avoid the free cells for ever: a sample that
\* ends the loop, possible at every pass, is drawn at some pass
FairSpecSnack == SnackInit /\ [][SnackNext]_vars /\ WF_vars(Break)

(***************************************************************************)
(* Properties                                                              *)
(***************************************************************************)
\* the cell p is a cell of the rows x rows grid
InGrid(p) == p[1] \in 0 .. rows - 1 /\ p[2] \in 0 .. rows - 1

\* C1: in every snake.move() of the loop, each cube behind the head ends on
\* the cell the cube ahead of it had before the call.
C1_FollowsSegmentAhead ==
    [][pc = "move" => \A i \in 2 .. Len(body) : body'[i].pos = body[i - 1].pos]_vars

\* C2: right after every snake.move() of the loop, every cube of the body is
\* on a cell of the grid (both coordinates in 0 .. rows - 1).
C2_PositionsInGrid ==
    pc = "eat" => \A i \in 1 .. Len(body) : InGrid(body[i].pos)

\* the cube c is on an edge of the grid and its direction points off the grid
PointsOffGrid(c) ==
    \/ c.pos[1] = 0 /\ c.dirnx = -1
    \/ c.pos[1] = rows - 1 /\ c.dirnx = 1
    \/ c.pos[2] = 0 /\ c.dirny = -1
    \/ c.pos[2] = rows - 1 /\ c.dirny = 1

\* the cell on the opposite edge, the other coordinate kept
OppositeEdge(c) ==
    IF c.pos[1] = 0 /\ c.dirnx = -1 THEN <<rows - 1, c.pos[2]>>
    ELSE IF c.pos[1] = rows - 1 /\ c.dirnx = 1 THEN <<0, c.pos[2]>>
    ELSE IF c.pos[2] = 0 /\ c.dirny = -1 THEN <<c.pos[1], rows - 1>>
    ELSE <<c.pos[1], 0>>

\* the cube c1 is the cube c0 put on the opposite edge, direction unchanged
IsWrapOf(c1, c0) ==
    /\ c1.pos = OppositeEdge(c0)
    /\ c1.dirnx = c0.dirnx
    /\ c1.dirny = c0.dirny

\* C3 as stated: one snake.move() puts every cube that is on an edge with its
\* direction pointing off the grid on the opposite edge, its other
\* coordinate and its direction unchanged.
C3_EdgeCubeWraps ==
    [][pc = "move" =>
        \A i \in 1 .. Len(body) :
            PointsOffGrid(body[i]) => IsWrapOf(body'[i], body[i])]_vars

\* the reverse of the direction (dx, dy)
IsReverse(dx1, dy1, dx, dy) == dx1 = -dx /\ dy1 = -dy

\* the key that asks for the reverse of the direction (dx, dy)
ReverseKey(dx, dy) ==
    IF dx = 1 THEN "K_LEFT"
    ELSE IF dx = -1 THEN "K_RIGHT"
    ELSE IF dy = 1 THEN "K_UP"
    ELSE "K_DOWN"

\* k is the only key held in the key state ks
OnlyHeld(ks, k) == \A j \in Keys : ks[j] <=> j = k

\* C4: handle_input never sets the snake's direction to the reverse of its
\* value before the call, and when the only key held is the one asking for
\* the reverse, the direction is left as it was.
C4_NoReversal ==
    [][pc = "input" =>
        /\ ~IsReverse(dirnx', dirny', dirnx, dirny)
        /\ OnlyHeld(keys', ReverseKey(dirnx, dirny))
               => (dirnx' = dirnx /\ dirny' = dirny)]_vars

\* C4 witness: handle_input has run with only the reversing key held (had the
\* key been accepted, the direction would be the key's own, not its reverse)
C4_ReverseKeyRefused ==
    /\ pc = "move"
    /\ OnlyHeld(keys, ReverseKey(dirnx, dirny))
    /\ Len(body) > 1

\* the snake before and after each of k successive calls of Snake.move():
\* element j + 1 is the snake after j calls
RECURSIVE MoveTrace(_, _, _)
MoveTrace(b, t, k) ==
    IF k = 0 THEN <<[body |-> b, turns |-> t]>>
    ELSE LET r == Snake_move(b, t)
         IN  <<[body |-> b, turns |-> t]>> \o MoveTrace(r.body, r.turns, k - 1)

\* the advances of the trace tr bring no growth and no reset in the loop:
\* the head does not reach the snack and no two cubes meet
QuietAdvances(tr) ==
    \A j \in 2 .. Len(tr) : tr[j].body[1].pos # snack /\ ~Collision(tr[j].body)

\* C5: when a turn is stamped at the head's cell of a snake of length L and
\* L advances follow with no accepted input, growth or reset, the entry is
\* in the map after fewer than L advances, is gone after the L-th, and then
\* every cube has the stamped direction.
C5_TurnPropagates ==
    (pc = "move" /\ body[1].pos \in DOMAIN turns) =>
        LET p == body[1].pos
            d == turns[p]
            L == Len(body)
            tr == MoveTrace(body, turns, L)
        IN  QuietAdvances(tr) =>
                /\ \A j \in 1 .. L : p \in DOMAIN tr[j].turns
                /\ p \notin DOMAIN tr[L + 1].turns
                /\ \A i \in 1 .. L :
                       tr[L + 1].body[i].dirnx = d[1] /\ tr[L + 1].body[i].dirny = d[2]

\* C6: the first advance of the newly created snake, with no key held, takes
\* the head from (10, 10) to (10, 11).
C6_FirstAdvanceDown ==
    [][(pc = "move" /\ ticks = 0 /\ keys = NoKeys) => body'[1].pos = <<10, 11>>]_vars

\* the snake is as Snake.reset(p) leaves it
FreshAt(p) ==
    /\ Len(body) = 1
    /\ body[1].pos = p
    /\ DOMAIN turns = {}
    /\ dirnx = 0
    /\ dirny = 1

\* C7: the first advance after a reset at (x, y), with no key held, takes the
\* head from (x, y) to (x, y + 1).
C7_AdvanceAfterResetDown ==
    [][(pc = "move" /\ ticks > 0 /\ keys = NoKeys /\ FreshAt(StartPos))
           => body'[1].pos = <<StartPos[1], StartPos[2] + 1>>]_vars

\* C8: reset(p) leaves one cube at p, no pending turn and direction (0, 1).
C8_ResetRestores ==
    [][pc = "alert" =>
        /\ Len(body') = 1
        /\ body'[1].pos = StartPos
        /\ DOMAIN turns' = {}
        /\ dirnx' = 0
        /\ dirny' = 1]_vars

\* C8 witness: the reset has replaced a longer body, and the snake is fresh
C8_ResetDone ==
    /\ pc = "redraw"
    /\ Len(prev) > 1
    /\ FreshAt(StartPos)

\* C9: add_cube lengthens the body by one cube, which has the old tail's
\* direction and is one cell behind the old tail; the other cubes keep their
\* position and direction.
C9_GrowBehindTail ==
    [][(pc = "eat" /\ body[1].pos = snack) =>
        LET L == Len(body)
            tail == body[L]
        IN  /\ Len(body') = L + 1
            /\ body'[L + 1].dirnx = tail.dirnx
            /\ body'[L + 1].dirny = tail.dirny
            /\ body'[L + 1].pos = <<tail.pos[1] - tail.dirnx, tail.pos[2] - tail.dirny>>
            /\ \A i \in 1 .. L : body'[i] = body[i]]_vars

\* C9 witness: add_cube has added a cube behind a tail that moves right
C9_Grown ==
    /\ pc = "collide"
    /\ Len(body) = Len(prev) + 1
    /\ Len(prev) > 1
    /\ body[Len(body)].dirnx = 1
    /\ body[Len(body)].pos[1] = body[Len(prev)].pos[1] - 1

\* C10: the body gets longer only in the snack test of a tick whose advance
\* left the head on the snack, and then by one cube; in any other step the
\* snack stays where it is.
C10_GrowsIffHeadOnSnack ==
    [][/\ Len(body') > Len(body) <=> (pc = "eat" /\ body[1].pos = snack)
       /\ Len(body') > Len(body) => Len(body') = Len(body) + 1
       /\ snack' # snack => (pc = "eat" /\ body[1].pos = snack)]_vars

\* C10 witness: the tick has grown the snake and moved the snack off the head
C10_AteAndGrew ==
    /\ pc = "collide"
    /\ Len(body) = Len(prev) + 1
    /\ snack # body[1].pos
    /\ turns # EmptyTurns

\* the snake has length 3, its direction is (1, 0) and the advance of the
\* tick has put its head on the snack
RightwardOnSnack ==
    /\ pc = "eat"
    /\ Len(body) = 3
    /\ dirnx = 1
    /\ dirny = 0
    /\ body[1].pos = snack

\* the body after the step has a fourth cube, one cell to the left of the
\* third cube of the body before
GrownToTheLeft ==
    /\ Len(body') = 4
    /\ body'[4].pos = <<body[3].pos[1] - 1, body[3].pos[2]>>

SharedCell(b) ==
    \E i \in 1 .. Len(b) : \E j \in 1 .. Len(b) : i # j /\ b[i].pos = b[j].pos

\* C12: the collision check of a tick raises the alert exactly when two
\* cubes at different indices of the body are on the same cell, whether the
\* head is one of them or not.
C12_CollisionIffSharedCell ==
    [][pc = "collide" => ((pc' = "alert") <=> SharedCell(body))]_vars

\* C12 witness: the alert is up for a body whose head is alone on its cell,
\* two cubes behind it being on the same cell
C12_NonHeadPairDetected ==
    /\ pc = "alert"
    /\ \A j \in 2 .. Len(body) : body[j].pos # body[1].pos
    /\ \E i \in 2 .. Len(body) : \E j \in i + 1 .. Len(body) : body[i].pos = body[j].pos

\* C13: while the alert is up the snake is still the colliding body, and
\* the score shown is its length, the cube grown in the same tick counted;
\* when the tick gets to its redraw after an alert, the snake is one cube
\* at (10, 10) and the score shown was that of the longer body.
C13_ScoreIsLengthAtDetection ==
    /\ pc = "alert" =>
           /\ alerts = <<Len(body)>>
           /\ SharedCell(body)
           /\ Len(body) = Len(prev) + 1 => alerts[1] = Len(prev) + 1
    /\ (pc = "redraw" /\ alerts # <<>>) =>
           /\ Len(body) = 1
           /\ body[1].pos = StartPos
           /\ alerts[1] > Len(body)

\* C13 witness: a tick that grew the snake detected a collision, showed the
\* score with the new cube counted, and reset the snake
C13_GrownThenGameOver ==
    /\ pc = "redraw"
    /\ Len(prev) = 2
    /\ alerts = <<3>>
    /\ Len(body) = 1
    /\ body[1].pos = StartPos
    /\ snack \notin TickCells

\* the indices of the body b at which the collision loop finds a collision
CollidingIndices(b) ==
    {x \in 1 .. Len(b) : \E j \in x + 1 .. Len(b) : b[x].pos = b[j].pos}

\* C14: no tick raises more than one alert; the step that closes the alert
\* and resets the snake goes on to the redraw without testing another index
\* and leaves running as it is, and the redraw of a loop that is running
\* goes back to the quit poll, game over or not.
C14_OneAlertPerTick ==
    [][/\ Len(alerts') <= 1
       /\ pc = "alert" => (pc' = "redraw" /\ running' = running)
       /\ (pc = "redraw" /\ running) => pc' = "events"]_vars

\* C14 witness: a body that collided at several indices has been handled by
\* one alert and one reset, and the loop is still running
C14_SeveralPairsOneAlert ==
    /\ pc = "redraw"
    /\ Cardinality(CollidingIndices(prev)) > 1
    /\ Len(alerts) = 1
    /\ Len(body) = 1
    /\ running

\* the cell p is a cell of the grid that no cube of the body b is on
FreeCell(p, b) == InGrid(p) /\ \A i \in 1 .. Len(b) : b[i].pos # p

\* C15: the snack placed at the start of the game and the snack placed after
\* each eat are on a cell of the grid that no cube of the snake is on, the
\* cube that the eat has just appended included.
C15_SnackOnFreeCell ==
    /\ FreeCell(snack, body)
    /\ [][(pc = "eat" /\ body[1].pos = snack) =>
             (snack' # snack /\ FreeCell(snack', body'))]_vars

\* C15 witness: the snack has been placed again after an eat whose new cube
\* is on a cell the random source can produce
C15_SampledBesideNewCube ==
    /\ pc = "collide"
    /\ Len(body) = Len(prev) + 1
    /\ body[Len(body)].pos \in SampleCells
    /\ body[1].pos # StartPos
    /\ FreeCell(snack, body)

\* the cells of the grid of the followed call that no cube of the body is on
FreeCells == {p \in Grid(frame.rows) : \A i \in 1 .. Len(body) : body[i].pos # p}

\* C16: on every grid of 1 x 1 to MaxN x MaxN cells, what random_snack
\* returns is a cell (x, y) with 0 <= x < N and 0 <= y < N that no cube of
\* the snake is on; when one cell only is free, it is that cell.
C16_ReturnsFreeCell ==
    pc = "rs_return" =>
        /\ snack[1] \in 0 .. frame.rows - 1
        /\ snack[2] \in 0 .. frame.rows - 1
        /\ \A i \in 1 .. Len(body) : body[i].pos # snack
        /\ \A c \in FreeCells : Cardinality(FreeCells) = 1 => snack = c

\* C16 witness: random_snack has returned the one free cell of a 2 x 2 grid
\* on which the snake has a cube outside of the grid too
C16_OnlyFreeCellReturned ==
    /\ pc = "rs_return"
    /\ frame.rows = 2
    /\ Cardinality(FreeCells) = 1
    /\ Len(body) = 4
    /\ snack \in FreeCells

\* C17: when a cell of the grid is free, the call of random_snack returns,
\* the random source being fair to the samples that end the loop.
C17_Terminates ==
    (pc = "rs_loop" /\ FreeCells # {}) ~> (pc = "rs_return")

\* C17 witness: the call has returned on a grid with several free cells and
\* a cube in each column
C17_ReturnedAmongSeveral ==
    /\ pc = "rs_return"
    /\ Cardinality(FreeCells) > 1
    /\ \A x \in 0 .. frame.rows - 1 : \E i \in 1 .. Len(body) : body[i].pos[1] = x

\* C18: when every cell of the grid has a cube on it, the call of
\* random_snack has not returned and cannot: each pass of its loop can only
\* draw a sample and go on to the next pass.
C18_FullGridNeverReturns ==
    FreeCells = {} =>
        /\ pc = "rs_loop"
        /\ ENABLED Continue
        /\ ~ENABLED Break

\* C18 witness: on a full 2 x 2 grid the loop has rejected a sample and is at
\* its head again
C18_FullGridSampledAgain ==
    /\ FreeCells = {}
    /\ frame.rows = 2
    /\ frame.x >= 0
    /\ pc = "rs_loop"

\* C19: the quit poll that finds a quit event goes to Stopped at once, and
\* once the quit is known the snake, the snack and the alerts shown stay as
\* they are: the tick handles no input, does not advance, eat, collide or
\* reset.
C19_QuitExitsAtThePoll ==
    [][/\ (pc = "events" /\ ~running') => pc' = "stopped"
       /\ ~running => UNCHANGED <<body, turns, dirnx, dirny, snack, alerts>>]_vars

\* C20: once the quit poll has found a quit event the loop gets to Stopped,
\* and it does not go back to the quit poll of another tick.
C20_QuitTerminates ==
    /\ (~running) ~> (pc = "stopped")
    /\ [][~running => pc' # "events"]_vars

\* C20 witness: the loop has stopped after a quit found in a later tick than
\* the first, with a snake that had grown
C20_StoppedAfterQuit ==
    /\ pc = "stopped"
    /\ ~running
    /\ ticks > 1
    /\ Len(body) > 1

\* the keys in the order in which handle_input tests them
KeyOrder == <<"K_LEFT", "K_RIGHT", "K_UP", "K_DOWN">>

\* the direction a key asks for
KeyDir(k) ==
    IF k = "K_LEFT" THEN <<-1, 0>>
    ELSE IF k = "K_RIGHT" THEN <<1, 0>>
    ELSE IF k = "K_UP" THEN <<0, -1>>
    ELSE <<0, 1>>

\* the indices in KeyOrder of the keys of the set K
KeyIndices(K) == {i \in 1 .. 4 : KeyOrder[i] \in K}

\* the first key of the set K in the order of the tests (K is not empty)
FirstKey(K) == KeyOrder[CHOOSE i \in KeyIndices(K) : \A j \in KeyIndices(K) : i <= j]

\* the keys held in the key state ks
Held(ks) == {k \in DOMAIN ks : ks[k]}

\* the step has the effect of the key k, and of no other: the snake takes the
\* direction of k and the turn is stamped at the head's cell
EffectOf(k) ==
    /\ <<dirnx', dirny'>> = KeyDir(k)
    /\ turns' = TurnsPut(turns, body[1].pos, KeyDir(k))

\* C21 as stated: with keys held, a call of handle_input has the effect of the
\* first held key in the order left, right, up, down, or none; no other held
\* key has an effect.
C21_FirstHeldKeyOnly ==
    [][pc = "input" =>
        \/ UNCHANGED <<dirnx, dirny, turns>>
        \/ Held(keys') # {} /\ EffectOf(FirstKey(Held(keys')))]_vars

\* C21 amended: a call of handle_input has the effect of one key at most, the
\* first in the order left, right, up, down among the held keys that do not
\* ask for the reverse of the snake's direction; without such a key it has no
\* effect.
C21_FirstAcceptableKeyOnly ==
    [][pc = "input" =>
        LET ok == Held(keys') \ {ReverseKey(dirnx, dirny)}
        IN  IF ok = {} THEN UNCHANGED <<dirnx, dirny, turns>>
            ELSE EffectOf(FirstKey(ok))]_vars

\* C21 witness: the left key was held and refused, the up key, held too, was
\* taken, and the down key, held as well, was ignored
C21_SecondHeldKeyTaken ==
    /\ pc = "move"
    /\ keys["K_LEFT"]
    /\ keys["K_UP"]
    /\ keys["K_DOWN"]
    /\ <<dirnx, dirny>> = <<0, -1>>
    /\ Len(body) > 1

\* a lookup of the call of handle_input with the key state ks fails: a key
\* is absent, and no key tested before it is taken
LookupFails(ks) ==
    \E i \in 1 .. 4 :
        /\ KeyOrder[i] \notin DOMAIN ks
        /\ \A j \in 1 .. i - 1 :
               /\ KeyOrder[j] \in DOMAIN ks
               /\ ~(ks[KeyOrder[j]] /\ KeyOrder[j] # ReverseKey(dirnx, dirny))

\* C22: when a lookup of the key state fails, handle_input returns without
\* an error and leaves the snake's direction, the pending turns and the body
\* as they were.
C22_FailedLookupIsNoInput ==
    [][(pc = "input" /\ LookupFails(keys')) =>
           (pc' = "move" /\ UNCHANGED <<dirnx, dirny, turns, body>>)]_vars

\* C22 witness: the call has returned for a key state without the right key;
\* the up key, held and acceptable, was not reached
C22_LookupFailedBeforeHeldKey ==
    /\ pc = "move"
    /\ "K_LEFT" \in DOMAIN keys
    /\ ~keys["K_LEFT"]
    /\ "K_RIGHT" \notin DOMAIN keys
    /\ "K_UP" \in DOMAIN keys
    /\ keys["K_UP"]
    /\ <<dirnx, dirny>> = <<1, 0>>
    /\ turns = EmptyTurns

\* C23: in no tick is the direction of the head cube after the advance the
\* reverse of its direction before the tick (handle_input does not touch
\* the cubes, so that is its direction before the advance).
C23_HeadNeverReverses ==
    [][pc = "move" =>
        ~IsReverse(body'[1].dirnx, body'[1].dirny, body[1].dirnx, body[1].dirny)]_vars

\* the cube c is on or past an edge of the grid and its direction points
\* away from the grid
PastEdge(c) ==
    \/ c.dirnx = -1 /\ c.pos[1] <= 0
    \/ c.dirnx = 1 /\ c.pos[1] >= rows - 1
    \/ c.dirny = 1 /\ c.pos[2] >= rows - 1
    \/ c.dirny = -1 /\ c.pos[2] <= 0

\* the cell on the opposite edge for a cube that is on or past an edge
WrapCell(c) ==
    IF c.dirnx = -1 /\ c.pos[1] <= 0 THEN <<rows - 1, c.pos[2]>>
    ELSE IF c.dirnx = 1 /\ c.pos[1] >= rows - 1 THEN <<0, c.pos[2]>>
    ELSE IF c.dirny = 1 /\ c.pos[2] >= rows - 1 THEN <<c.pos[1], 0>>
    ELSE <<c.pos[1], rows - 1>>

\* the cube c1 is the cube c moved by one cell in the direction d, which it
\* has taken
MovedBy(c1, c, d) ==
    /\ c1.pos = <<c.pos[1] + d[1], c.pos[2] + d[2]>>
    /\ <<c1.dirnx, c1.dirny>> = d

\* C24: in every snake.move() a cube whose cell holds a pending turn moves
\* one cell in the recorded direction and takes it, on an edge of the grid
\* too; a cube whose cell holds none wraps when it is on an edge and points
\* away from the grid, keeping its direction; any other cube moves one cell
\* in its own direction.
C24_TurnBeforeWrapBeforeMove ==
    [][pc = "move" =>
        \A i \in 1 .. Len(body) :
            LET c == body[i]
                c1 == body'[i]
            IN  IF c.pos \in DOMAIN turns THEN MovedBy(c1, c, turns[c.pos])
                ELSE IF PastEdge(c)
                     THEN c1.pos = WrapCell(c) /\ c1.dirnx = c.dirnx /\ c1.dirny = c.dirny
                     ELSE MovedBy(c1, c, <<c.dirnx, c.dirny>>)]_vars

\* C24 witness: a cube that moved down on the bottom edge has taken the turn
\* pending at its cell, which has put it one cell below the grid
C24_TurnTakenOnEdge ==
    /\ pc = "eat"
    /\ \E i \in 1 .. Len(body) :
           /\ prev[i].pos[2] = rows - 1
           /\ prev[i].dirny = 1
           /\ body[i].pos[2] = rows

\* C25: an entry leaves the turns only in snake.move(), when the last cube
\* moves from the entry's cell, or in reset(); in snake.move() an entry whose
\* cell the last cube is not on stays as it was, whichever other cubes move
\* through the cell.
C25_EntryRemovedByTailOrReset ==
    [][\A p \in DOMAIN turns :
          /\ p \notin DOMAIN turns' =>
                \/ pc = "move" /\ body[Len(body)].pos = p
                \/ pc = "alert"
          /\ (pc = "move" /\ body[Len(body)].pos # p) =>
                (p \in DOMAIN turns' /\ turns'[p] = turns[p])]_vars

\* C25 witness: the head of a snake of several cubes has moved from a cell
\* with an entry that the last cube was not on, and the entry is still there
C25_EntryLeftForFollowers ==
    /\ pc = "eat"
    /\ Len(prev) > 1
    /\ prev[1].pos # prev[Len(prev)].pos
    /\ prev[1].pos \in DOMAIN turns

\* C26: handle_input leaves the body as it is (every cube's position and
\* direction, and the length); it either leaves the snake's direction and
\* the turns as they are, or it writes one entry, at the head's cell, holding
\* the direction the snake has after the call, and keeps every other entry;
\* when no held key is acceptable it leaves direction and turns as they are.
C26_InputWritesOneEntryAtHead ==
    [][pc = "input" =>
        /\ body' = body
        /\ \/ UNCHANGED <<dirnx, dirny, turns>>
           \/ /\ DOMAIN turns' = DOMAIN turns \cup {body[1].pos}
              /\ turns'[body[1].pos] = <<dirnx', dirny'>>
              /\ \A q \in DOMAIN turns \ {body[1].pos} : turns'[q] = turns[q]
        /\ Held(keys') \ {ReverseKey(dirnx, dirny)} = {} =>
              UNCHANGED <<dirnx, dirny, turns>>]_vars

\* C26 witness: a held key was accepted while another turn was pending: the
\* entry at the head's cell holds the direction of the key, which the snake
\* has, and there is an entry at another cell
C26_EntryAddedToPendingOnes ==
    /\ pc = "move"
    /\ body[1].pos \in DOMAIN turns
    /\ turns[body[1].pos] = <<dirnx, dirny>>
    /\ \E k \in Held(keys) : KeyDir(k) = <<dirnx, dirny>>
    /\ DOMAIN turns # {body[1].pos}

\* C27: the body gets shorter only in reset(), which leaves one cube; it
\* gets longer only in the growth step of a tick, of which there is one, and
\* by one cube.
C27_LengthChangesByGrowthOrReset ==
    [][/\ Len(body') < Len(body) => pc = "alert"
       /\ pc = "alert" => Len(body') = 1
       /\ Len(body') > Len(body) => (pc = "eat" /\ Len(body') = Len(body) + 1)
       /\ pc = "eat" => ticks' = ticks]_vars

\* C27 witness: a snake that had grown to three cubes or more, one tick at
\* a time, was reset to one cube in a tick in which it did not grow
C27_GrownSnakeResetToOne ==
    /\ pc = "redraw"
    /\ alerts # <<>>
    /\ alerts[1] >= 3
    /\ Len(prev) = alerts[1]
    /\ Len(body) = 1

\* C28: in every state of the game loop the direction of every cube and the
\* direction of the snake are one of (1,0), (-1,0), (0,1), (0,-1).
C28_DirectionsAreUnit ==
    /\ <<dirnx, dirny>> \in UnitDirs
    /\ \A i \in 1 .. Len(body) : <<body[i].dirnx, body[i].dirny>> \in UnitDirs

\* C28 witness: after two accepted keys the cubes of a grown snake go in
\* three different directions
C28_ThreeDirectionsInBody ==
    /\ pc = "redraw"
    /\ alerts = <<>>
    /\ Cardinality({<<body[i].dirnx, body[i].dirny>> : i \in 1 .. Len(body)}) >= 3

\* C29: at the end of every tick, after the collision check, no two cubes
\* of the snake are on the same cell: no pair coincided, or the snake was
\* reset to one cube.
C29_DistinctCellsAtEndOfTick ==
    pc \in {"redraw", "events", "stopped"} =>
        \A i \in 1 .. Len(body) : \A j \in 1 .. Len(body) :
            i # j => body[i].pos # body[j].pos

\* C29 witness: a tick of a snake of four cubes or more that has turned ends
\* without a collision
C29_LongBentSnakePassedCheck ==
    /\ pc = "redraw"
    /\ alerts = <<>>
    /\ Len(body) >= 4
    /\ body[1].dirnx # body[Len(body)].dirnx

\* C30: at the end of every tick every cell with a pending turn is the cell
\* of a cube other than the head; so there are at most len(body) - 1 pending
\* turns, and none when the snake has one cube.
C30_TurnsUnderNonHeadCubes ==
    pc = "redraw" =>
        /\ \A p \in DOMAIN turns : \E i \in 2 .. Len(body) : body[i].pos = p
        /\ Cardinality(DOMAIN turns) <= Len(body) - 1
        /\ Len(body) = 1 => turns = EmptyTurns

\* C31: whenever handle_input records a turn at the head's cell, the turns
\* hold no entry for that cell: a pending turn is never overwritten before
\* the last cube has consumed it.
C31_NoOverwriteOfPendingTurn ==
    [][(pc = "input" /\ Held(keys') \ {ReverseKey(dirnx, dirny)} # {}) =>
          body[1].pos \notin DOMAIN turns]_vars

\* C32: between two ticks, from construction and from reset() on, the
\* direction of the snake, which the guards of handle_input test, is the
\* direction of the head cube, which move() uses for the head.
C32_SnakeDirectionIsHeadDirection ==
    pc = "events" => (dirnx = body[1].dirnx /\ dirny = body[1].dirny)

\* C33: at the end of every tick the snack is on the cell of no cube of the
\* snake, also when the tick has reset the snake to the start cell.
C33_SnackOffTheSnake ==
    pc = "redraw" => \A i \in 1 .. Len(body) : body[i].pos # snack

\* the cells p and q, with coordinates taken modulo rows, are horizontal or
\* vertical neighbours on the torus
TorusAdjacent(p, q) ==
    LET dx == (p[1] - q[1]) % rows
        dy == (p[2] - q[2]) % rows
    IN  \/ dx \in {1, rows - 1} /\ dy = 0
        \/ dx = 0 /\ dy \in {1, rows - 1}

\* C34: at the end of every tick each cube behind the head is, modulo rows,
\* on a cell next to the cell of the cube ahead of it, also after growth
\* and after a cube has crossed an edge.
C34_BodyContiguousOnTorus ==
    pc = "redraw" =>
        \A i \in 2 .. Len(body) : TorusAdjacent(body[i - 1].pos, body[i].pos)

====
